---- MODULE Spec2Model ----
(***************************************************************************)
(* Model of bininps (panStamp binary input + pulse counter module):        *)
(* updateValues, setup, loop, the three pin-change interrupt vectors and   *)
(* the register updaters updtBinInputs / updtCounters of bininps.cpp.      *)
(*                                                                         *)
(* The main program is a sequence of steps (pc); the pins and the          *)
(* pin-change interrupt hardware (PCMSKx, PCIFR, PCICR) are the            *)
(* environment.  A pin may change level between any two steps.             *)
(***************************************************************************)
EXTENDS Integers, Sequences, FiniteSets, TLC

\* ------------------------------------------------------------------ bounds
\* Number of pins that may be HIGH or change level, taken in the order of
\* LiveOrder; every other pin stays LOW.
LivePins == 4
\* Total number of pin level changes in one behaviour.
MaxChanges == 3
\* The same two bounds for the fair specification, whose liveness checking
\* costs more per state.
FairPins == 3
FairChanges == 2

\* --------------------------------------------------------------- constants
LOW == 0
HIGH == 1
Ports == {"B", "C", "D"}

\* Pin change masks, as the set of bits that are 1.
PCINTMASK0 == {0, 1}
PCINTMASK1 == {0, 1, 2, 3, 4, 5}
PCINTMASK2 == {3, 5, 6, 7}

\* Pure binary inputs: port bit and port of each line (index 0..7).
binaryPin == <<0, 1, 0, 1, 2, 3, 4, 5>>
binaryPort == <<"B", "B", "C", "C", "C", "C", "C", "C">>
\* Counter inputs: port bit and port of each line (index 0..3).
counterPin == <<3, 5, 6, 7>>
counterPort == <<"D", "D", "D", "D">>

\* sizeof(binaryPin), sizeof(counterPin)
NumBinary == Len(binaryPin)
NumCounter == Len(counterPin)
BinaryLines == 0 .. (NumBinary - 1)
CounterLines == 0 .. (NumCounter - 1)

\* Register ids of the two custom registers the sketch transmits.
REGI_BININPUTS == "REGI_BININPUTS"
REGI_COUNTERS == "REGI_COUNTERS"

\* An unsigned long is 32 bits wide on the AVR: it is held as its 4 bytes,
\* least significant first (the value 2^32 - 1 is beyond TLC's integers).
ULong(n) == <<n % 256, (n \div 256) % 256, (n \div 65536) % 256,
              (n \div 16777216) % 256>>

\* ----------------------------------------------------------------- helpers
\* Mutant: the bit is read inverted.
bitReadInverted(reg, bit) == IF bit \in reg THEN LOW ELSE HIGH

\* bitRead(value, bit) on a port register held as the set of its 1 bits.
bitRead(reg, bit) == IF bit \in reg THEN HIGH ELSE LOW

\* Bit n of a byte held as a number.
ByteBit(byte, n) == (byte \div (2 ^ n)) % 2

\* Mutant: byte |= state, without the shift.
OrShiftNoShift(byte, state, i) ==
    IF state = 0 \/ byte % 2 = 1
    THEN byte
    ELSE (byte + 1) % 256

\* byte |= state << i, for state in {0,1}, truncated to a byte.
OrShift(byte, state, i) ==
    IF state = 0 \/ ByteBit(byte, i) = 1
    THEN byte
    ELSE (byte + 2 ^ i) % 256

\* Mutant: every sample is taken for a change.
EdgeChangedAlways(last, state) == TRUE

\* lastState[i] != state
EdgeChanged(last, state) == last # state

\* Mutant: res = 1 without the test of res == 0.
ResOnEdgeOverwrite(r) == 1

\* if (res == 0) res = 1;
ResOnEdge(r) == IF r = 0 THEN 1 ELSE r

\* Mutant: every edge is counted, the falling edge too.
CountsPulseAnyEdge(state) == TRUE

\* if (state == HIGH)
CountsPulse(state) == state = HIGH

\* Mutant: the counter saturates at 0xFFFFFFFF.
IncrementSaturating(c) ==
    IF c[1] < 255 THEN <<c[1] + 1, c[2], c[3], c[4]>>
    ELSE IF c[2] < 255 THEN <<0, c[2] + 1, c[3], c[4]>>
    ELSE IF c[3] < 255 THEN <<0, 0, c[3] + 1, c[4]>>
    ELSE IF c[4] < 255 THEN <<0, 0, 0, c[4] + 1>>
    ELSE c

\* counter[i]++ on an unsigned long: the carry ripples through the bytes and
\* the value wraps from 0xFFFFFFFF to 0.
Increment(c) ==
    IF c[1] < 255 THEN <<c[1] + 1, c[2], c[3], c[4]>>
    ELSE IF c[2] < 255 THEN <<0, c[2] + 1, c[3], c[4]>>
    ELSE IF c[3] < 255 THEN <<0, 0, c[3] + 1, c[4]>>
    ELSE <<0, 0, 0, (c[4] + 1) % 256>>

\* (value >> 8 * (3-j)) & 0xFF: byte 3-j of the value.
CounterByte(value, j) == value[(3 - j) + 1]

\* The 16 bytes updtCounters writes: dtCounters[i*4 + j] from counter[3-i].
CounterBytes(cnt) ==
    [k \in 1 .. (4 * 4) |->
        CounterByte(cnt[3 - ((k - 1) \div 4)], (k - 1) % 4)]

\* The input pins, counter and binary lines of the three ports in turn.
LiveOrder ==
    << <<"D", 3>>, <<"B", 0>>, <<"D", 5>>, <<"C", 0>>, <<"B", 1>>, <<"D", 6>>,
       <<"C", 1>>, <<"D", 7>>, <<"C", 2>>, <<"C", 3>>, <<"C", 4>>, <<"C", 5>> >>

\* The bits of port p among the first n pins of LiveOrder.
LiveBitsOf(n, p) ==
    {LiveOrder[k][2] : k \in {m \in 1 .. Len(LiveOrder) :
                                 m <= n /\ LiveOrder[m][1] = p}}

\* The live bits of a port, from the bound.
LiveBits(p) == LiveBitsOf(LivePins, p)

\* ------------------------------------------------------------------- state
VARIABLES
    PIN,              \* PINB, PINC, PIND: the set of HIGH bits of each port
    PCMSK,            \* PCMSK0..2: the set of bits enabled, per port
    PCIFR,            \* ports whose pin change interrupt flag is latched
    PCICR,            \* 7: pin change interrupts enabled, 0: disabled
    pcIRQ,            \* volatile boolean pcIRQ
    stateLowByte,
    stateHighByte,
    lastStateBinary,
    lastStateCount,
    counter,
    dtBinInputs,      \* <<dtBinInputs[0], dtBinInputs[1]>>
    dtCounters,       \* dtCounters[0..15], as a sequence of 16 bytes
    pc,               \* position of the main program
    fn,               \* the sketch function running: "setup" or "loop"
    i,                \* loop index of updateValues
    res,              \* res of updateValues (its value once returned)
    tx,               \* registers transmitted in the current cycle, in order
    cycle,            \* "setup", "async" or "timer": the branch of the
                      \* cycle under way, "none" between cycles
    wake,             \* how goToSleep returned: "timer" or "irq", until the
                      \* wake flag is tested
    passes,           \* calls of updateValues in the current cycle
    detected,         \* lines whose stored level was compared in this pass
    chg,              \* lines found changed in this pass
    incd,             \* counter lines incremented in this pass
    changes,          \* pin level changes so far
    handled,          \* a pin change vector ran since interrupts were enabled
    feed,             \* test driver: the levels to feed to one line
    fed,              \* test driver: how many of them were fed
    fedLine,          \* test driver: the line they are fed to
    traced,           \* the counter lines are traced (rises, bootHigh)
    rises,            \* traced transitions into HIGH of each counter line
    bootHigh          \* traced counter lines the pass of setup read HIGH

hw == <<PIN, PCMSK, PCIFR, PCICR>>
lines == <<lastStateBinary, lastStateCount, counter>>
packed == <<stateLowByte, stateHighByte>>
regs == <<dtBinInputs, dtCounters>>
passGhost == <<detected, chg, incd>>
driver == <<feed, fed, fedLine>>
edges == <<traced, rises, bootHigh>>
vars == <<PIN, PCMSK, PCIFR, PCICR, pcIRQ, stateLowByte, stateHighByte,
          lastStateBinary, lastStateCount, counter, dtBinInputs, dtCounters,
          pc, fn, i, res, tx, cycle, wake, passes, detected, chg, incd,
          changes, edges, handled, feed, fed, fedLine>>

\* Line names for the ghost sets.
BinLine(k) == <<"binary", k>>
CntLine(k) == <<"counter", k>>
AllLines == {BinLine(k) : k \in BinaryLines} \cup {CntLine(k) : k \in CounterLines}

\* Mutant: the stored levels are initialised to LOW.
ResetKnownLow ==
    /\ PCMSK = [p \in Ports |-> {}]
    /\ PCIFR = {}
    /\ PCICR = 0
    /\ pcIRQ = FALSE
    /\ stateLowByte = 0
    /\ stateHighByte = 0
    /\ lastStateBinary = [k \in BinaryLines |-> LOW]
    /\ lastStateCount = [k \in CounterLines |-> LOW]
    /\ counter = [k \in CounterLines |-> ULong(0)]
    /\ dtBinInputs = <<0, 0>>
    /\ dtCounters = [k \in 1 .. 16 |-> 0]
    /\ i = 0
    /\ res = 0
    /\ tx = <<>>
    /\ wake = "none"
    /\ passes = 0
    /\ detected = {}
    /\ chg = {}
    /\ incd = {}
    /\ changes = 0
    /\ handled = FALSE
    /\ rises = [k \in CounterLines |-> 0]
    /\ bootHigh = {}

\* The state after reset and the static initialisers, whatever the pins.
Reset ==
    /\ PCMSK = [p \in Ports |-> {}]
    /\ PCIFR = {}
    /\ PCICR = 0
    /\ pcIRQ = FALSE
    /\ stateLowByte = 0
    /\ stateHighByte = 0
    /\ lastStateBinary = [k \in BinaryLines |-> -1]
    /\ lastStateCount = [k \in CounterLines |-> -1]
    /\ counter = [k \in CounterLines |-> ULong(0)]
    /\ dtBinInputs = <<0, 0>>
    /\ dtCounters = [k \in 1 .. 16 |-> 0]
    /\ i = 0
    /\ res = 0
    /\ tx = <<>>
    /\ wake = "none"
    /\ passes = 0
    /\ detected = {}
    /\ chg = {}
    /\ incd = {}
    /\ changes = 0
    /\ handled = FALSE
    /\ rises = [k \in CounterLines |-> 0]
    /\ bootHigh = {}

\* The sketch starts in setup; the first n pins of LiveOrder have any level.
Boot(n) ==
    /\ \E b \in SUBSET LiveBitsOf(n, "B"), c \in SUBSET LiveBitsOf(n, "C"),
          d \in SUBSET LiveBitsOf(n, "D") :
          PIN = [p \in Ports |-> CASE p = "B" -> b [] p = "C" -> c [] OTHER -> d]
    /\ Reset
    /\ pc = "s_init"
    /\ fn = "setup"
    /\ cycle = "setup"
    /\ feed = <<>>
    /\ fed = 0
    /\ fedLine = BinLine(0)

Init == Boot(LivePins) /\ traced = FALSE

\* ------------------------------------------------------------ updateValues
\* Mutant: res is not initialised on entry.
UVEnterResKept ==
    /\ res' = res
    /\ stateLowByte' = 0
    /\ i' = 0
    /\ pc' = "uv_bin"
    /\ passes' = passes + 1
    /\ detected' = {}
    /\ chg' = {}
    /\ incd' = {}

\* Entry: byte i, res = 0; stateLowByte = 0; i = 0.
UVEnter ==
    /\ res' = 0
    /\ stateLowByte' = 0
    /\ i' = 0
    /\ pc' = "uv_bin"
    /\ passes' = passes + 1
    /\ detected' = {}
    /\ chg' = {}
    /\ incd' = {}

\* Mutant: a change is reported and the stored level is not updated.
UVBinaryNoStore ==
    /\ pc = "uv_bin"
    /\ i < NumBinary
    /\ LET state == bitRead(PIN[binaryPort[i + 1]], binaryPin[i + 1])
           edge == EdgeChanged(lastStateBinary[i], state)
       IN  /\ stateLowByte' = OrShift(stateLowByte, state, i)
           /\ res' = IF edge THEN 1 ELSE res
           /\ chg' = IF lastStateBinary[i] # state
                     THEN chg \cup {BinLine(i)} ELSE chg
    /\ detected' = detected \cup {BinLine(i)}
    /\ i' = i + 1
    /\ UNCHANGED <<hw, pcIRQ, stateHighByte, lines, regs,
                   pc, fn, tx, cycle, wake, passes, incd, changes, edges,
                   handled, driver>>

\* One iteration of the loop over the pure binary inputs.
UVBinary ==
    /\ pc = "uv_bin"
    /\ i < NumBinary
    /\ LET state == bitRead(PIN[binaryPort[i + 1]], binaryPin[i + 1])
           edge == EdgeChanged(lastStateBinary[i], state)
       IN  /\ stateLowByte' = OrShift(stateLowByte, state, i)
           /\ lastStateBinary' =
                 IF edge THEN [lastStateBinary EXCEPT ![i] = state]
                         ELSE lastStateBinary
           /\ res' = IF edge THEN 1 ELSE res
           /\ chg' = IF lastStateBinary[i] # state
                     THEN chg \cup {BinLine(i)} ELSE chg
    /\ detected' = detected \cup {BinLine(i)}
    /\ i' = i + 1
    /\ UNCHANGED <<hw, pcIRQ, stateHighByte, lastStateCount, counter, regs,
                   pc, fn, tx, cycle, wake, passes, incd, changes, edges,
                   handled, driver>>

\* End of the first loop: stateHighByte = 0; i = 0.
UVBinaryDone ==
    /\ pc = "uv_bin"
    /\ i = NumBinary
    /\ stateHighByte' = 0
    /\ i' = 0
    /\ pc' = "uv_cnt"
    /\ UNCHANGED <<hw, pcIRQ, stateLowByte, lines, regs, fn, res, tx, cycle,
                   wake, passes, passGhost, changes, edges, handled, driver>>

\* Mutant: the counter is incremented in the step that reads the pin, before
\* the stored level is compared and updated.
UVCounterCountFirst ==
    /\ pc = "uv_cnt"
    /\ i < NumCounter
    /\ LET state == bitRead(PIN[counterPort[i + 1]], counterPin[i + 1])
           edge == EdgeChanged(lastStateCount[i], state)
       IN  /\ stateHighByte' = OrShift(stateHighByte, state, i)
           /\ lastStateCount' =
                 IF edge THEN [lastStateCount EXCEPT ![i] = state]
                         ELSE lastStateCount
           /\ chg' = IF lastStateCount[i] # state
                     THEN chg \cup {CntLine(i)} ELSE chg
           /\ IF edge /\ CountsPulse(state)
              THEN /\ counter' = [counter EXCEPT ![i] = Increment(counter[i])]
                   /\ res' = 2
                   /\ incd' = incd \cup {CntLine(i)}
              ELSE /\ res' = IF edge THEN ResOnEdge(res) ELSE res
                   /\ UNCHANGED <<counter, incd>>
    /\ pc' = "uv_cnt"
    /\ i' = i + 1
    /\ detected' = detected \cup {CntLine(i)}
    /\ bootHigh' = IF traced /\ fn = "setup"
                      /\ counterPin[i + 1] \in PIN[counterPort[i + 1]]
                   THEN bootHigh \cup {i} ELSE bootHigh
    /\ UNCHANGED <<hw, pcIRQ, stateLowByte, lastStateBinary, regs,
                   fn, tx, cycle, wake, passes, changes, traced, rises,
                   handled, driver>>

\* One iteration of the loop over the counter inputs, up to the test of
\* state == HIGH: read, pack, compare with and update the stored level.
UVCounterDetect ==
    /\ pc = "uv_cnt"
    /\ i < NumCounter
    /\ LET state == bitRead(PIN[counterPort[i + 1]], counterPin[i + 1])
           edge == EdgeChanged(lastStateCount[i], state)
       IN  /\ stateHighByte' = OrShift(stateHighByte, state, i)
           /\ lastStateCount' =
                 IF edge THEN [lastStateCount EXCEPT ![i] = state]
                         ELSE lastStateCount
           /\ res' = IF edge THEN ResOnEdge(res) ELSE res
           /\ chg' = IF lastStateCount[i] # state
                     THEN chg \cup {CntLine(i)} ELSE chg
           /\ IF edge /\ CountsPulse(state)
              THEN pc' = "uv_inc" /\ i' = i
              ELSE pc' = "uv_cnt" /\ i' = i + 1
    /\ detected' = detected \cup {CntLine(i)}
    /\ bootHigh' = IF traced /\ fn = "setup"
                      /\ counterPin[i + 1] \in PIN[counterPort[i + 1]]
                   THEN bootHigh \cup {i} ELSE bootHigh
    /\ UNCHANGED <<hw, pcIRQ, stateLowByte, lastStateBinary, counter, regs,
                   fn, tx, cycle, wake, passes, incd, changes, traced, rises,
                   handled, driver>>

\* Mutant: a pulse is counted twice.
UVCounterIncTwice ==
    /\ pc = "uv_inc"
    /\ counter' = [counter EXCEPT ![i] = Increment(Increment(counter[i]))]
    /\ res' = 2
    /\ incd' = incd \cup {CntLine(i)}
    /\ i' = i + 1
    /\ pc' = "uv_cnt"
    /\ UNCHANGED <<hw, pcIRQ, packed, lastStateBinary, lastStateCount, regs,
                   fn, tx, cycle, wake, passes, detected, chg, changes,
                   edges, handled, driver>>

\* counter[i]++; res = 2; and the end of the iteration.
UVCounterInc ==
    /\ pc = "uv_inc"
    /\ counter' = [counter EXCEPT ![i] = Increment(counter[i])]
    /\ res' = 2
    /\ incd' = incd \cup {CntLine(i)}
    /\ i' = i + 1
    /\ pc' = "uv_cnt"
    /\ UNCHANGED <<hw, pcIRQ, packed, lastStateBinary, lastStateCount, regs,
                   fn, tx, cycle, wake, passes, detected, chg, changes,
                   edges, handled, driver>>

\* return res; to the caller.
UVReturn ==
    /\ pc = "uv_cnt"
    /\ i = NumCounter
    /\ pc' = CASE fn = "setup" -> "s_txbin"
               [] fn = "loop"  -> "l_switch"
               [] OTHER        -> "t_next"
    /\ UNCHANGED <<hw, pcIRQ, packed, lines, regs, fn, i, res, tx, cycle,
                   wake, passes, passGhost, changes, edges, handled, driver>>

\* The record of a pass ends when the caller has taken its result, and
\* the record of a cycle (with the dead local res) when the cycle ends.
PassOver ==
    /\ detected' = {}
    /\ chg' = {}
    /\ incd' = {}

CycleOver ==
    /\ tx' = <<>>
    /\ cycle' = "none"
    /\ passes' = 0
    /\ res' = 0

\* ------------------------------------------------------ register updaters
\* Mutant: the two bytes of the register are swapped.
updtBinInputsSwapped == <<stateLowByte, stateHighByte>>

\* getRegister(REGI_BININPUTS)->getData(): updtBinInputs, then the
\* register is transmitted.
updtBinInputs == <<stateHighByte, stateLowByte>>

\* getRegister(REGI_COUNTERS)->getData(): updtCounters, then the register
\* is transmitted.
updtCounters == CounterBytes(counter)

SendBinInputs ==
    /\ dtBinInputs' = updtBinInputs
    /\ tx' = Append(tx, REGI_BININPUTS)
    /\ UNCHANGED dtCounters

SendCounters ==
    /\ dtCounters' = updtCounters
    /\ tx' = Append(tx, REGI_COUNTERS)
    /\ UNCHANGED dtBinInputs

\* ------------------------------------------------------------------- setup
\* From Serial.begin to the transmission of the voltage supply: the pins are
\* made inputs and the pin change masks are set.
SetupInit ==
    /\ pc = "s_init"
    /\ PCMSK' = [p \in Ports |->
                    CASE p = "B" -> PCINTMASK0
                      [] p = "C" -> PCINTMASK1
                      [] OTHER   -> PCINTMASK2]
    /\ pc' = "s_update"
    /\ UNCHANGED <<PIN, PCIFR, PCICR, pcIRQ, packed, lines, regs, fn, i, res,
                   tx, cycle, wake, passes, passGhost, changes, edges,
                   handled, driver>>

\* Mutant: setup transmits without calling updateValues.
SetupUpdateSkipped ==
    /\ pc = "s_update"
    /\ pc' = "s_txbin"
    /\ UNCHANGED <<hw, pcIRQ, packed, lines, regs, fn, i, res, tx, cycle,
                   wake, passes, passGhost, changes, edges, handled, driver>>

\* updateValues();
SetupUpdate ==
    /\ pc = "s_update"
    /\ UVEnter
    /\ UNCHANGED <<hw, pcIRQ, stateHighByte, lines, regs, fn, tx, cycle,
                   wake, changes, edges, handled, driver>>

\* Transmit initial binary states
SetupSendBin ==
    /\ pc = "s_txbin"
    /\ SendBinInputs
    /\ pc' = "s_txcnt"
    /\ PassOver
    /\ UNCHANGED <<hw, pcIRQ, packed, lines, fn, i, res, cycle, wake, passes,
                   changes, edges, handled, driver>>

\* Transmit initial counter values
SetupSendCounters ==
    /\ pc = "s_txcnt"
    /\ SendCounters
    /\ pc' = "s_enable"
    /\ UNCHANGED <<hw, pcIRQ, packed, lines, fn, i, res, cycle, wake, passes,
                   passGhost, changes, edges, handled, driver>>

\* Rx off, pcEnableInterrupt(); setup returns and loop is entered.
SetupEnable ==
    /\ pc = "s_enable"
    /\ PCICR' = 7
    /\ fn' = "loop"
    /\ pc' = "l_sleep"
    /\ CycleOver
    /\ handled' = FALSE
    /\ UNCHANGED <<PIN, PCMSK, PCIFR, pcIRQ, packed, lines, regs, i, wake,
                   passGhost, changes, edges, driver>>

\* -------------------------------------------------------------------- loop
\* panstamp.goToSleep() returns because the transmission interval elapsed.
TimerWake ==
    /\ pc = "l_sleep"
    /\ pc' = "l_disable"
    /\ wake' = "timer"
    /\ UNCHANGED <<hw, pcIRQ, packed, lines, regs, fn, i, res, tx, cycle,
                   passes, passGhost, changes, edges, handled, driver>>

\* Mutant: pcDisableInterrupt() is missing.
LoopDisableMissing ==
    /\ pc = "l_disable"
    /\ pc' = "l_check"
    /\ UNCHANGED <<hw, pcIRQ, packed, lines, regs, fn, i, res, tx, cycle,
                   wake, passes, passGhost, changes, edges, handled, driver>>

\* pcDisableInterrupt(); a new cycle starts.
LoopDisable ==
    /\ pc = "l_disable"
    /\ PCICR' = 0
    /\ pc' = "l_check"
    /\ UNCHANGED <<PIN, PCMSK, PCIFR, pcIRQ, packed, lines, regs, fn, i, res,
                   tx, cycle, wake, passes, passGhost, changes, edges,
                   handled, driver>>

\* if (pcIRQ) switch(updateValues()) ... else ...
LoopCheck ==
    /\ pc = "l_check"
    /\ IF pcIRQ
       THEN /\ cycle' = "async"
            /\ UVEnter
            /\ UNCHANGED <<hw, pcIRQ, stateHighByte, lines, regs, fn, tx,
                           changes, edges, handled, driver>>
       ELSE /\ cycle' = "timer"
            /\ pc' = "l_tmr_cnt"
            /\ UNCHANGED <<hw, pcIRQ, packed, lines, regs, fn, i, res, tx,
                           passes, passGhost, changes, edges, handled, driver>>
    /\ wake' = "none"

\* Mutant: the switch has no case 1.
LoopSwitchNoCaseOne ==
    /\ pc = "l_switch"
    /\ pc' = CASE res = 2 -> "l_txcnt"
               [] OTHER   -> "l_clear"
    /\ PassOver
    /\ UNCHANGED <<hw, pcIRQ, packed, lines, regs, fn, i, res, tx, cycle,
                   wake, passes, changes, edges, handled, driver>>

\* switch(updateValues()): case 2, case 1, default.
LoopSwitch ==
    /\ pc = "l_switch"
    /\ pc' = CASE res = 2 -> "l_txcnt"
               [] res = 1 -> "l_txbin"
               [] OTHER   -> "l_clear"
    /\ PassOver
    /\ UNCHANGED <<hw, pcIRQ, packed, lines, regs, fn, i, res, tx, cycle,
                   wake, passes, changes, edges, handled, driver>>

\* Mutant: case 2 ends with a break.
LoopSendCountersBreak ==
    /\ pc = "l_txcnt"
    /\ SendCounters
    /\ pc' = "l_clear"
    /\ UNCHANGED <<hw, pcIRQ, packed, lines, fn, i, res, cycle, wake, passes,
                   passGhost, changes, edges, handled, driver>>

\* case 2: transmit counter values, and fall through to case 1.
LoopSendCounters ==
    /\ pc = "l_txcnt"
    /\ SendCounters
    /\ pc' = "l_txbin"
    /\ UNCHANGED <<hw, pcIRQ, packed, lines, fn, i, res, cycle, wake, passes,
                   passGhost, changes, edges, handled, driver>>

\* case 1: transmit binary states; break.
LoopSendBin ==
    /\ pc = "l_txbin"
    /\ SendBinInputs
    /\ pc' = "l_clear"
    /\ UNCHANGED <<hw, pcIRQ, packed, lines, fn, i, res, cycle, wake, passes,
                   passGhost, changes, edges, handled, driver>>

\* Mutant: the wake flag is not cleared.
LoopClearMissing ==
    /\ pc = "l_clear"
    /\ pc' = "l_enable"
    /\ UNCHANGED <<hw, pcIRQ, packed, lines, regs, fn, i, res, tx, cycle,
                   wake, passes, passGhost, changes, edges, handled, driver>>

\* pcIRQ = false;
LoopClear ==
    /\ pc = "l_clear"
    /\ pcIRQ' = FALSE
    /\ pc' = "l_enable"
    /\ UNCHANGED <<hw, packed, lines, regs, fn, i, res, tx, cycle, wake,
                   passes, passGhost, changes, edges, handled, driver>>

\* Mutant: the else branch transmits the counter values only.
LoopTimerSendCountersOnly ==
    /\ pc = "l_tmr_cnt"
    /\ SendCounters
    /\ pc' = "l_enable"
    /\ UNCHANGED <<hw, pcIRQ, packed, lines, fn, i, res, cycle, wake, passes,
                   passGhost, changes, edges, handled, driver>>

\* else branch: transmit counter values
LoopTimerSendCounters ==
    /\ pc = "l_tmr_cnt"
    /\ SendCounters
    /\ pc' = "l_tmr_bin"
    /\ UNCHANGED <<hw, pcIRQ, packed, lines, fn, i, res, cycle, wake, passes,
                   passGhost, changes, edges, handled, driver>>

\* Mutant: the else branch resets the counters once they are transmitted.
LoopTimerSendBinReset ==
    /\ pc = "l_tmr_bin"
    /\ SendBinInputs
    /\ counter' = [k \in CounterLines |-> ULong(0)]
    /\ pc' = "l_enable"
    /\ UNCHANGED <<hw, pcIRQ, packed, lastStateBinary, lastStateCount, fn, i,
                   res, cycle, wake, passes, passGhost, changes, edges,
                   handled, driver>>

\* else branch: transmit binary states
LoopTimerSendBin ==
    /\ pc = "l_tmr_bin"
    /\ SendBinInputs
    /\ pc' = "l_enable"
    /\ UNCHANGED <<hw, pcIRQ, packed, lines, fn, i, res, cycle, wake, passes,
                   passGhost, changes, edges, handled, driver>>

\* pcEnableInterrupt(); loop returns and is called again: goToSleep.
LoopEnable ==
    /\ pc = "l_enable"
    /\ PCICR' = 7
    /\ pc' = "l_sleep"
    /\ CycleOver
    /\ handled' = FALSE
    /\ UNCHANGED <<PIN, PCMSK, PCIFR, pcIRQ, packed, lines, regs, fn, i,
                   wake, passGhost, changes, edges, driver>>

\* -------------------------------------------------------------- interrupts
\* Mutant: the vector wakes the main loop and does not set the wake flag.
PCINT_vectNoFlag(p) ==
    /\ PCICR = 7
    /\ p \in PCIFR
    /\ PCIFR' = PCIFR \ {p}
    /\ IF pc = "l_sleep"
       THEN pc' = "l_disable" /\ wake' = "irq"
       ELSE UNCHANGED <<pc, wake>>
    /\ handled' = TRUE
    /\ UNCHANGED <<PIN, PCMSK, PCICR, pcIRQ, packed, lines, regs, fn, i, res,
                   tx, cycle, passes, passGhost, changes, edges, driver>>

\* SIGNAL(PCINTx_vect): panstamp.wakeUp(); pcIRQ = true;  The hardware runs
\* the vector of a port whose flag is latched while PCICR enables it, and
\* clears the flag.  wakeUp makes a sleeping goToSleep return.
PCINT_vect(p) ==
    /\ PCICR = 7
    /\ p \in PCIFR
    /\ PCIFR' = PCIFR \ {p}
    /\ pcIRQ' = TRUE
    /\ IF pc = "l_sleep"
       THEN pc' = "l_disable" /\ wake' = "irq"
       ELSE UNCHANGED <<pc, wake>>
    /\ handled' = TRUE
    /\ UNCHANGED <<PIN, PCMSK, PCICR, packed, lines, regs, fn, i, res, tx,
                   cycle, passes, passGhost, changes, edges, driver>>

\* ------------------------------------------------------------- environment
\* The level of a live pin changes; the flag of its port is latched when
\* the pin is enabled in the port's mask.
PinChange(p, b) ==
    /\ changes < MaxChanges
    /\ b \in LiveBits(p)
    /\ PIN' = [PIN EXCEPT ![p] = IF b \in PIN[p] THEN PIN[p] \ {b}
                                               ELSE PIN[p] \cup {b}]
    /\ PCIFR' = IF b \in PCMSK[p] THEN PCIFR \cup {p} ELSE PCIFR
    /\ changes' = changes + 1
    /\ rises' = [k \in CounterLines |->
                    IF traced /\ p = counterPort[k + 1]
                       /\ b = counterPin[k + 1] /\ b \notin PIN[p]
                    THEN rises[k] + 1 ELSE rises[k]]
    /\ UNCHANGED <<PCMSK, PCICR, pcIRQ, packed, lines, regs, pc, fn, i, res,
                   tx, cycle, wake, passes, passGhost, handled, driver,
                   traced, bootHigh>>

\* ----------------------------------------------------------- specification
Main ==
    \/ SetupInit
    \/ SetupUpdate
    \/ SetupSendBin
    \/ SetupSendCounters
    \/ SetupEnable
    \/ UVBinary
    \/ UVBinaryDone
    \/ UVCounterDetect
    \/ UVCounterInc
    \/ UVReturn
    \/ LoopDisable
    \/ LoopCheck
    \/ LoopSwitch
    \/ LoopSendCounters
    \/ LoopSendBin
    \/ LoopClear
    \/ LoopTimerSendCounters
    \/ LoopTimerSendBin
    \/ LoopEnable

Interrupt == \E p \in Ports : PCINT_vect(p)

Environment == \E p \in Ports : \E b \in 0 .. 7 : PinChange(p, b)

Next == Main \/ TimerWake \/ Interrupt \/ Environment

Spec == Init /\ [][Next]_vars

\* The processor keeps executing the main program while it is awake, the
\* watchdog timer ends a sleep that lasts, and the hardware runs the vector
\* of a latched flag once the interrupts are enabled: it does so within a
\* few clock cycles, however briefly the main loop leaves them enabled.
FairInit == Boot(FairPins) /\ traced = FALSE

FairEnvironment ==
    \E p \in Ports : \E b \in LiveBitsOf(FairPins, p) :
        changes < FairChanges /\ PinChange(p, b)

FairNext == Main \/ TimerWake \/ Interrupt \/ FairEnvironment

FairSpec ==
    /\ FairInit
    /\ [][FairNext]_vars
    /\ WF_vars(Main)
    /\ WF_vars(TimerWake)
    /\ SF_vars(Interrupt)

\* The sketch with its counter lines traced: the first EdgePins pins of
\* LiveOrder have any level and change level EdgeChanges times.
EdgePins == 3
EdgeChanges == 3

EdgeInit == Boot(EdgePins) /\ traced = TRUE

EdgeEnvironment ==
    \E p \in Ports : \E b \in LiveBitsOf(EdgePins, p) :
        changes < EdgeChanges /\ PinChange(p, b)

EdgeNext == Main \/ TimerWake \/ Interrupt \/ EdgeEnvironment

EdgeSpec == EdgeInit /\ [][EdgeNext]_vars

\* ------------------------------------------------------------- test driver
\* updateValues called pass after pass, one line being fed a sequence of
\* levels (one level per pass) from the state after reset; the other pins
\* stay LOW.
MaxFeed == 6

LinePort(l) == IF l[1] = "binary" THEN binaryPort[l[2] + 1]
                                  ELSE counterPort[l[2] + 1]
LinePin(l) == IF l[1] = "binary" THEN binaryPin[l[2] + 1]
                                 ELSE counterPin[l[2] + 1]

TestInit ==
    /\ PIN = [p \in Ports |-> {}]
    /\ Reset
    /\ pc = "t_next"
    /\ fn = "test"
    /\ cycle = "none"
    /\ fedLine \in AllLines
    /\ traced = FALSE
    /\ feed \in UNION {[1 .. n -> {LOW, HIGH}] : n \in 1 .. MaxFeed}
    /\ fed = 0

\* The next level is put on the pin and updateValues is called.
TestFeed ==
    /\ pc = "t_next"
    /\ fed < Len(feed)
    /\ PIN' = [PIN EXCEPT ![LinePort(fedLine)] =
                 IF feed[fed + 1] = HIGH THEN @ \cup {LinePin(fedLine)}
                                         ELSE @ \ {LinePin(fedLine)}]
    /\ fed' = fed + 1
    /\ UVEnter
    /\ UNCHANGED <<PCMSK, PCIFR, PCICR, pcIRQ, stateHighByte, lines, regs,
                   fn, tx, cycle, wake, changes, edges, handled, feed, fedLine>>

TestNext ==
    \/ TestFeed
    \/ UVBinary
    \/ UVBinaryDone
    \/ UVCounterDetect
    \/ UVCounterInc
    \/ UVReturn

TestSpec == TestInit /\ [][TestNext]_vars

\* ------------------------------------------------------------ quiet lines
\* updateValues called QuietPasses times from the state after reset while
\* the pins keep their levels: the first QuietPins pins of LiveOrder have
\* any level, the others are LOW.
QuietPins == 8
QuietPasses == 10

QuietInit ==
    /\ \E b \in SUBSET LiveBitsOf(QuietPins, "B"),
          c \in SUBSET LiveBitsOf(QuietPins, "C"),
          d \in SUBSET LiveBitsOf(QuietPins, "D") :
          PIN = [p \in Ports |-> CASE p = "B" -> b [] p = "C" -> c [] OTHER -> d]
    /\ Reset
    /\ pc = "t_next"
    /\ fn = "test"
    /\ cycle = "none"
    /\ feed = <<>>
    /\ fed = 0
    /\ fedLine = BinLine(0)
    /\ traced = FALSE

\* updateValues is called once more.
QuietPass ==
    /\ pc = "t_next"
    /\ fed < QuietPasses
    /\ fed' = fed + 1
    /\ UVEnter
    /\ UNCHANGED <<hw, pcIRQ, stateHighByte, lines, regs, fn, tx, cycle,
                   wake, changes, edges, handled, feed, fedLine>>

QuietNext ==
    \/ QuietPass
    \/ UVBinary
    \/ UVBinaryDone
    \/ UVCounterDetect
    \/ UVCounterInc
    \/ UVReturn

QuietSpec == QuietInit /\ [][QuietNext]_vars

\* ------------------------------------------------------- long-running unit
\* The sketch asleep after a cycle, all pins LOW and all of it published,
\* once the counters have reached a value near the top of their range; the
\* first WrapPins pins of LiveOrder change level then, WrapChanges times.
WrapPins == 2
WrapChanges == 3

\* Counter values before a carry out of the low bytes and before the wrap.
WrapStarts ==
    {<<255, 255, 0, 0>>, <<254, 255, 255, 255>>, <<255, 255, 255, 255>>}

WrapInit ==
    /\ PIN = [p \in Ports |-> {}]
    /\ PCMSK = [p \in Ports |->
                   CASE p = "B" -> PCINTMASK0
                     [] p = "C" -> PCINTMASK1
                     [] OTHER   -> PCINTMASK2]
    /\ PCIFR = {}
    /\ PCICR = 7
    /\ pcIRQ = FALSE
    /\ stateLowByte = 0
    /\ stateHighByte = 0
    /\ lastStateBinary = [k \in BinaryLines |-> LOW]
    /\ lastStateCount = [k \in CounterLines |-> LOW]
    /\ \E c \in WrapStarts : counter = [k \in CounterLines |-> c]
    /\ dtBinInputs = <<0, 0>>
    /\ dtCounters = CounterBytes(counter)
    /\ pc = "l_sleep"
    /\ fn = "loop"
    /\ i = NumCounter
    /\ res = 0
    /\ tx = <<>>
    /\ cycle = "none"
    /\ wake = "none"
    /\ passes = 0
    /\ detected = {}
    /\ chg = {}
    /\ incd = {}
    /\ changes = 0
    /\ handled = FALSE
    /\ rises = [k \in CounterLines |-> 0]
    /\ bootHigh = {}
    /\ feed = <<>>
    /\ fed = 0
    /\ fedLine = BinLine(0)
    /\ traced = FALSE

WrapEnvironment ==
    \E p \in Ports : \E b \in LiveBitsOf(WrapPins, p) :
        changes < WrapChanges /\ PinChange(p, b)

WrapNext ==
    \/ UVBinary
    \/ UVBinaryDone
    \/ UVCounterDetect
    \/ UVCounterInc
    \/ UVReturn
    \/ LoopDisable
    \/ LoopCheck
    \/ LoopSwitch
    \/ LoopSendCounters
    \/ LoopSendBin
    \/ LoopClear
    \/ LoopTimerSendCounters
    \/ LoopTimerSendBin
    \/ LoopEnable
    \/ TimerWake
    \/ Interrupt
    \/ WrapEnvironment

WrapSpec == WrapInit /\ [][WrapNext]_vars

\* ------------------------------------------------------------------ claims
\* The physical level of a line.
Level(l) == bitRead(PIN[LinePort(l)], LinePin(l))

\* The value of an unsigned long below 2^31.
ULongValue(c) == c[1] + 256 * c[2] + 65536 * c[3] + 16777216 * c[4]

\* The number of samples among the first n of s that are HIGH and follow a
\* LOW sample or no sample at all.
RECURSIVE Rises(_, _)
Rises(s, n) ==
    IF n = 0 THEN 0
    ELSE Rises(s, n - 1)
         + (IF s[n] = HIGH /\ (n = 1 \/ s[n - 1] = LOW) THEN 1 ELSE 0)

\* The bits of the transmitted binary inputs are the levels given by f.
BinInputsShow(dt, f(_)) ==
    /\ \A k \in BinaryLines : ByteBit(dt[2], k) = f(BinLine(k))
    /\ \A k \in CounterLines : ByteBit(dt[1], k) = f(CntLine(k))

\* The level stored for a line.
Stored(l) == IF l[1] = "binary" THEN lastStateBinary[l[2]]
                                ELSE lastStateCount[l[2]]

\* The value the transmitted counter register holds for counter line k
\* (4 bytes, most significant first, the last counter first).
SentCounter(dt, k) ==
    LET b == 4 * (3 - k)
    IN  ((dt[b + 1] * 256 + dt[b + 2]) * 256 + dt[b + 3]) * 256 + dt[b + 4]

BinaryOnly == {BinLine(k) : k \in BinaryLines}
CountersUpTo(k) == {CntLine(j) : j \in 0 .. k}

\* The main loop is inside a sample-and-publish cycle: past the masking of
\* the interrupts and not yet back to sleep.
InCycle == fn = "loop" /\ pc \notin {"l_sleep", "l_disable"}

\* updateValues has returned and the caller has not used the result yet.
PassReturned == pc \in {"s_txbin", "l_switch"}

\* A pin change vector runs in this step (only a vector clears a flag).
VectorRuns == PCIFR' # PCIFR /\ PCIFR' \subseteq PCIFR

\* C1: whenever updateValues has been called on one line fed a sequence of
\* levels from the state after reset, the counter of a counter line holds
\* the number of fed levels that were HIGH and differed from the level
\* stored before (the previous one, or unknown), every other counter is 0;
\* so each pass adds 1 exactly on such a level and nothing otherwise, and
\* the levels 0,0,1,1,0,1 give 2.
C1_EdgeCounting ==
    pc = "t_next" =>
        /\ \A k \in CounterLines :
              counter[k] =
                  ULong(IF fedLine = CntLine(k) THEN Rises(feed, fed) ELSE 0)
        /\ (feed = <<0, 0, 1, 1, 0, 1>> /\ fed = 6 /\ fedLine[1] = "counter")
              => counter[fedLine[2]] = ULong(2)

C1_Witness ==
    /\ pc = "t_next"
    /\ feed = <<0, 0, 1, 1, 0, 1>>
    /\ fed = 6
    /\ fedLine = CntLine(0)
    /\ counter[0] = ULong(2)

\* C2: when updateValues returns, its result is 2 if a counter was
\* incremented in the pass, else 1 if a line differed from its stored
\* level, else 0.
C2_Classification ==
    PassReturned =>
        res = (IF incd # {} THEN 2 ELSE IF chg # {} THEN 1 ELSE 0)

C2_Witness ==
    /\ pc = "l_switch"
    /\ res = 2
    /\ incd = {CntLine(0)}
    /\ chg = {BinLine(0), CntLine(0), CntLine(1)}

\* C3: at the end of a cycle that found the wake flag set, updateValues
\* was called once and the registers transmitted are none for result 0, the
\* binary inputs for 1, the counters and then the binary inputs for 2.
C3_AsyncPublish ==
    (pc = "l_enable" /\ cycle = "async") =>
        /\ passes = 1
        /\ tx = (CASE res = 2 -> <<REGI_COUNTERS, REGI_BININPUTS>>
                   [] res = 1 -> <<REGI_BININPUTS>>
                   [] OTHER   -> <<>>)

C3_Witness ==
    /\ pc = "l_enable"
    /\ cycle = "async"
    /\ res = 2
    /\ tx = <<REGI_COUNTERS, REGI_BININPUTS>>

\* C4: at the end of a cycle that found the wake flag clear, the counters
\* and then the binary inputs were transmitted, whatever the pins.
C4_TimerPublish ==
    (pc = "l_enable" /\ cycle = "timer") =>
        tx = <<REGI_COUNTERS, REGI_BININPUTS>>

C4_Witness ==
    /\ pc = "l_enable"
    /\ cycle = "timer"
    /\ tx = <<REGI_COUNTERS, REGI_BININPUTS>>
    /\ \E l \in AllLines : Level(l) = HIGH

\* C5: setup transmits nothing before its call of updateValues, calls it
\* once, and has transmitted the binary inputs once and the counters once
\* when it enables the interrupts, before loop is entered.
C5_Bootstrap ==
    fn = "setup" =>
        /\ passes <= 1
        /\ tx # <<>> => (passes = 1 /\ pc \in {"s_txcnt", "s_enable"})
        /\ pc = "s_enable" =>
              /\ passes = 1
              /\ Len(tx) = 2
              /\ {tx[1], tx[2]} = {REGI_BININPUTS, REGI_COUNTERS}

C5_Witness ==
    /\ pc = "s_enable"
    /\ res = 1
    /\ tx = <<REGI_BININPUTS, REGI_COUNTERS>>

\* C6: inside a cycle, and throughout setup, the pin change interrupts are
\* disabled and no vector runs; a call of updateValues, a transmission, a change of the line state
\* and the clearing of the wake flag happen with the interrupts disabled;
\* and loop enables them only as its last step, with the wake flag clear.
C6_Masked ==
    /\ []((InCycle \/ fn = "setup") => PCICR = 0)
    /\ [][VectorRuns => (~InCycle /\ ~InCycle' /\ fn = "loop")]_vars
    /\ [][(passes' > passes \/ (tx' # tx /\ tx' # <<>>) \/ lines' # lines
             \/ (pcIRQ /\ ~pcIRQ'))
          => (PCICR = 0 /\ PCICR' = 0)]_vars
    /\ [][(fn = "loop" /\ PCICR = 0 /\ PCICR' # 0)
          => (pc = "l_enable" /\ pc' = "l_sleep" /\ ~pcIRQ')]_vars

C6_Witness ==
    /\ pc = "l_txbin"
    /\ PCICR = 0
    /\ PCIFR # {}
    /\ pcIRQ

\* C7: a flag latched while the interrupts are disabled leads to its
\* vector running and setting the wake flag; a wake flag set while the
\* interrupts are enabled leads to a cycle that takes the interrupt branch
\* and calls updateValues, which returns; and once the pins keep their
\* levels, the stored levels and the transmitted registers come to show
\* those levels and the counter values for good.
C7_LatchedNotLost ==
    /\ \A p \in Ports :
          (p \in PCIFR /\ PCICR = 0) ~> (p \notin PCIFR /\ pcIRQ)
    /\ (pcIRQ /\ PCICR = 7) ~> (cycle = "async" /\ pc = "uv_bin" /\ i = 0)
    /\ (cycle = "async" /\ pc = "uv_bin") ~> (pc = "l_switch")
    /\ <>[](/\ \A l \in AllLines : Stored(l) = Level(l)
            /\ BinInputsShow(dtBinInputs, Level)
            /\ \A k \in CounterLines :
                  SentCounter(dtCounters, k) = ULongValue(counter[k]))

C7_Witness ==
    /\ pc = "s_enable"
    /\ PCICR = 0
    /\ PCIFR # {}
    /\ \E l \in AllLines : Stored(l) # Level(l)

\* C8 as claimed: a counter is incremented only once the stored level of
\* every line has been compared in the pass.
C8_AllDetectedFirst ==
    [][counter' # counter => detected = AllLines]_vars

\* C8: when counter k is incremented, the stored levels compared so far in
\* the pass are those of all binary-only lines and of counter lines 0..k.
C8_DetectBeforeCount ==
    [][\A k \in CounterLines :
          counter'[k] # counter[k]
              => detected = BinaryOnly \cup CountersUpTo(k)]_vars

C8_Witness ==
    /\ pc = "uv_inc"
    /\ i = 0
    /\ detected = BinaryOnly \cup {CntLine(0)}
    /\ Level(CntLine(1)) # lastStateCount[1]

TimerSendsBin == pc = "l_tmr_bin" /\ pc' = "l_enable"
TimerSendsCounters == pc = "l_tmr_cnt" /\ pc' = "l_tmr_bin"

\* C9 as claimed: the binary inputs transmitted in a timer cycle are the
\* physical levels of the lines at that time, and the counters transmitted
\* are the counter values.
C9_TimerSendsPhysical ==
    /\ [][TimerSendsBin => BinInputsShow(dtBinInputs', Level)]_vars
    /\ [][TimerSendsCounters =>
            \A k \in CounterLines :
               SentCounter(dtCounters', k) = ULongValue(counter[k])]_vars

\* C9: the binary inputs transmitted in a timer cycle are the levels
\* stored by the last pass, which are the physical levels on every port
\* that has no pin change flag latched; the counters transmitted are the
\* counter values.
C9_TimerSendsStored ==
    /\ [][TimerSendsBin =>
            /\ BinInputsShow(dtBinInputs', Stored)
            /\ \A l \in AllLines :
                  LinePort(l) \notin PCIFR => Stored(l) = Level(l)]_vars
    /\ [][TimerSendsCounters =>
            \A k \in CounterLines :
               SentCounter(dtCounters', k) = ULongValue(counter[k])]_vars

C9_Witness ==
    /\ pc = "l_enable"
    /\ cycle = "timer"
    /\ tx = <<REGI_COUNTERS, REGI_BININPUTS>>
    /\ dtBinInputs = <<1, 1>>
    /\ SentCounter(dtCounters, 0) = 2
    /\ PCIFR = {}

LoopTestsFlag == pc = "l_check" /\ pc' # "l_check"

\* C10 as claimed: the cycle takes the interrupt branch exactly when
\* goToSleep was ended by a pin change interrupt and not by the timer; and
\* the wake flag is clear when loop enables the interrupts.
C10_BranchByWakeSource ==
    /\ [][LoopTestsFlag => (cycle' = "async" <=> wake = "irq")]_vars
    /\ [][(fn = "loop" /\ PCICR = 0 /\ PCICR' # 0) => ~pcIRQ']_vars

\* C10: the cycle takes the interrupt branch exactly when a pin change
\* vector ran since the interrupts were last enabled, be it after the
\* timer ended the sleep; and the wake flag is clear when loop enables the
\* interrupts.
C10_BranchByVector ==
    /\ [][LoopTestsFlag => (cycle' = "async" <=> handled)]_vars
    /\ [][(fn = "loop" /\ PCICR = 0 /\ PCICR' # 0) => ~pcIRQ']_vars

C10_Witness ==
    /\ pc = "l_check"
    /\ wake = "timer"
    /\ handled
    /\ pcIRQ

\* The 16 bit halves of an unsigned long.
LoWord(c) == c[1] + 256 * c[2]
HiWord(c) == c[3] + 256 * c[4]

\* d is c plus 1, or 0 when c is the largest 32 bit value.
PlusOne(c, d) ==
    \/ HiWord(d) = HiWord(c) /\ LoWord(d) = LoWord(c) + 1
    \/ LoWord(c) = 65535 /\ LoWord(d) = 0 /\ HiWord(d) = HiWord(c) + 1
    \/ LoWord(c) = 65535 /\ HiWord(c) = 65535 /\ LoWord(d) = 0 /\ HiWord(d) = 0

\* C11: a step that changes a counter, or that counts a pulse on its line,
\* takes the counter to its value plus 1, from the largest 32 bit value to
\* 0; the pass goes on as after any other increment (result 2, next line),
\* and no other step of the sketch changes a counter.
C11_PlusOneOrWrap ==
    [][\A k \in CounterLines :
          (counter'[k] # counter[k] \/ CntLine(k) \in incd' \ incd)
              => /\ PlusOne(counter[k], counter'[k])
                 /\ pc = "uv_inc" /\ i = k
                 /\ pc' = "uv_cnt" /\ i' = k + 1 /\ res' = 2
                 /\ \A j \in CounterLines \ {k} : counter'[j] = counter[j]]_vars

\* Counter 0 has wrapped from the largest value to 0 and counted one more
\* pulse since.
C11_Witness ==
    /\ pc = "l_sleep"
    /\ counter[0] = ULong(1)
    /\ SentCounter(dtCounters, 0) = 1

\* The sample pass is under way.
InPass == pc \in {"uv_bin", "uv_cnt", "uv_inc"}

\* C12: the stored level of a line is unknown (-1) only until the first
\* pass, the one setup makes, has read the line, and is 0 or 1 from then
\* on; a pass reads every line, the step that reads a line leaves the level
\* it read as the stored level, and no other step changes a stored level:
\* when a pass returns every stored level is the level read in that pass.
C12_StoredIsLastRead ==
    /\ [](\A l \in AllLines :
            /\ Stored(l) \in {-1, LOW, HIGH}
            /\ Stored(l) = -1 =>
                  /\ fn = "setup"
                  /\ pc \in {"s_init", "s_update"} \/ (InPass /\ l \notin detected))
    /\ [](PassReturned =>
            /\ detected = AllLines
            /\ \A l \in AllLines : Stored(l) \in {LOW, HIGH})
    /\ [][\A l \in AllLines :
            /\ l \in detected' \ detected => Stored(l)' = Level(l)
            /\ Stored(l)' # Stored(l) => l \in detected' \ detected]_vars

\* A pass of loop has returned and a line has changed level since the pass
\* read it.
C12_Witness ==
    /\ pc = "l_switch"
    /\ detected = AllLines
    /\ \A l \in AllLines : Stored(l) \in {LOW, HIGH}
    /\ \E l \in AllLines : Stored(l) # Level(l)

\* C13: on a line fed a sequence of levels, one per pass, the other lines
\* staying LOW: the first pass (stored level unknown) reports a change; a
\* later pass reports a change exactly when its level differs from the one
\* fed before, so a level fed twice is reported changed at most the first
\* time and never the second; after every pass the stored level of the
\* line is the level fed last, and every other line is stored LOW.
C13_DetectIdempotent ==
    (pc = "t_next" /\ fed >= 1) =>
        /\ Stored(fedLine) = feed[fed]
        /\ \A l \in AllLines \ {fedLine} : Stored(l) = LOW
        /\ fed = 1 => (res # 0 /\ fedLine \in chg)
        /\ fed >= 2 =>
              /\ (res # 0) <=> (feed[fed] # feed[fed - 1])
              /\ chg = (IF feed[fed] # feed[fed - 1] THEN {fedLine} ELSE {})

\* HIGH was fed twice after LOW: the second pass of HIGH reported nothing.
C13_Witness ==
    /\ pc = "t_next"
    /\ fed = 3
    /\ feed[1] = LOW /\ feed[2] = HIGH /\ feed[3] = HIGH
    /\ fedLine = BinLine(3)
    /\ res = 0
    /\ Stored(fedLine) = HIGH

\* C14: while the pins keep their levels, every call of updateValues after
\* the first returns 0, and no step from the second call on changes a
\* stored level or a counter.
C14_QuietPasses ==
    /\ []((pc = "t_next" /\ fed >= 2) => (res = 0 /\ chg = {} /\ incd = {}))
    /\ [][fed' >= 2 => lines' = lines]_vars

\* The last of the passes has returned 0, with lines HIGH and a counter
\* that counted in the first pass.
C14_Witness ==
    /\ pc = "t_next"
    /\ fed = QuietPasses
    /\ res = 0
    /\ counter[0] = ULong(1)
    /\ Level(BinLine(0)) = HIGH
    /\ Stored(BinLine(0)) = HIGH

\* C15: the pass setup makes, which finds every stored level unknown,
\* returns 1 or 2 whatever levels it reads, and finds every line changed.
C15_FirstPassChanged ==
    pc = "s_txbin" => (res \in {1, 2} /\ chg = AllLines)

\* The pass of setup has returned with binary and counter lines HIGH, and
\* with all lines LOW at the start of it.
C15_Witness ==
    /\ pc = "s_txbin"
    /\ res = 2
    /\ Stored(BinLine(0)) = HIGH
    /\ Stored(CntLine(0)) = HIGH
    /\ Stored(CntLine(1)) = LOW

\* No bit of the three input ports is set.
AllLow == \A p \in Ports : PIN[p] = {}

\* C16 as claimed: with all 12 lines LOW and every stored level unknown,
\* the first pass returns 2 and leaves the four counters at 0.
C16_AllLowReturnsBoth ==
    (pc = "t_next" /\ fed = 1 /\ AllLow) =>
        /\ res = 2
        /\ \A k \in CounterLines : counter[k] = ULong(0)

\* C16: with all 12 lines LOW and every stored level unknown, the first
\* pass returns 1 (no counter was incremented) and leaves the four counters
\* at 0.
C16_AllLowReturnsBinary ==
    (pc = "t_next" /\ fed = 1 /\ AllLow) =>
        /\ res = 1
        /\ incd = {}
        /\ \A k \in CounterLines : counter[k] = ULong(0)

C16_Witness ==
    /\ pc = "t_next"
    /\ fed = 1
    /\ AllLow
    /\ chg = AllLines
    /\ res = 1

\* A register is transmitted in this step.
Transmits(r) == tx' # tx /\ tx' # <<>> /\ tx'[Len(tx')] = r

\* C17: a step that changes a stored level, a counter or a packed byte is
\* a step of updateValues (its entry included); a pin change vector changes
\* the wake flag and ends the sleep and leaves the program's data alone;
\* a transmission changes the buffer of its own register only; and no step
\* of a cycle that takes the else branch changes a stored level, a
\* counter, a packed byte or the wake flag, which is clear.
C17_Frame ==
    /\ [][(lines' # lines \/ packed' # packed)
            => (InPass \/ pc' = "uv_bin")]_vars
    /\ [][VectorRuns =>
            /\ pcIRQ'
            /\ pc' = pc \/ (pc = "l_sleep" /\ pc' = "l_disable")
            /\ UNCHANGED <<PIN, PCMSK, PCICR, packed, lines, regs, fn, i,
                           res, tx>>]_vars
    /\ [][Transmits(REGI_BININPUTS) =>
            /\ dtBinInputs' = <<stateHighByte, stateLowByte>>
            /\ UNCHANGED <<hw, pcIRQ, packed, lines, dtCounters>>]_vars
    /\ [][Transmits(REGI_COUNTERS) =>
            UNCHANGED <<hw, pcIRQ, packed, lines, dtBinInputs>>]_vars
    /\ [][(cycle = "timer" \/ cycle' = "timer") =>
            /\ ~pcIRQ /\ ~pcIRQ'
            /\ UNCHANGED <<packed, lines>>]_vars

\* A cycle that took the else branch is over; a pin changed during it, and
\* its flag is latched.
C17_Witness ==
    /\ pc = "l_enable"
    /\ cycle = "timer"
    /\ tx = <<REGI_COUNTERS, REGI_BININPUTS>>
    /\ PCIFR # {}
    /\ ~pcIRQ
    /\ \E l \in AllLines : Stored(l) # Level(l)

\* C18: at every state, whatever the interleaving of pin changes, vectors
\* and main program, every counter is at most the number of transitions
\* into HIGH of its line since reset, plus 1 if the pass of setup read the
\* line HIGH.
C18_NoDoubleCount ==
    \A k \in CounterLines :
        ULongValue(counter[k])
            <= rises[k] + (IF k \in bootHigh THEN 1 ELSE 0)

\* Counter line 0 was HIGH for the pass of setup, fell and rose again, and
\* both pulses are counted.
C18_Witness ==
    /\ pc = "l_sleep"
    /\ 0 \in bootHigh
    /\ rises[0] = 1
    /\ counter[0] = ULong(2)

\* C19: whenever the sketch is about to sleep, after setup and after every
\* cycle of loop, the binary inputs register holds the packed bytes as they
\* are and the counters register holds the values the counters have.
C19_PublishedBeforeSleep ==
    pc = "l_sleep" =>
        /\ dtBinInputs[1] = stateHighByte
        /\ dtBinInputs[2] = stateLowByte
        /\ \A k \in CounterLines :
              SentCounter(dtCounters, k) = ULongValue(counter[k])

\* The sketch is about to sleep after cycles of loop in which lines changed
\* and a pulse was counted.
C19_Witness ==
    /\ pc = "l_sleep"
    /\ changes = MaxChanges
    /\ dtBinInputs[2] # 0
    /\ stateHighByte = 1
    /\ counter[0] = ULong(1)
    /\ counter[1] = ULong(1)

\* C20: once a pass has returned, and until the next one starts, bit k of
\* stateLowByte is the stored level of binary line k, bit k of
\* stateHighByte is the stored level of counter line k and bits 4..7 of
\* stateHighByte are 0; and once the binary inputs were transmitted in a
\* cycle, the register holds stateHighByte and then stateLowByte.
C20_PackedIsStored ==
    /\ (~InPass /\ pc \notin {"s_init", "s_update"}) =>
          /\ \A k \in BinaryLines : ByteBit(stateLowByte, k) = lastStateBinary[k]
          /\ \A k \in CounterLines : ByteBit(stateHighByte, k) = lastStateCount[k]
          /\ \A k \in 4 .. 7 : ByteBit(stateHighByte, k) = 0
    /\ (\E n \in 1 .. Len(tx) : tx[n] = REGI_BININPUTS) =>
          /\ Len(dtBinInputs) = 2
          /\ dtBinInputs[1] = stateHighByte
          /\ dtBinInputs[2] = stateLowByte

\* The binary inputs were transmitted after a pass of loop that read two
\* binary lines and two counter lines HIGH.
C20_Witness ==
    /\ pc = "l_clear"
    /\ tx = <<REGI_BININPUTS>>
    /\ stateLowByte = 5
    /\ stateHighByte = 3
    /\ dtBinInputs = <<3, 5>>

====
